---- MODULE Spec2Model ----
(***************************************************************************)
(* Model of the Aspire-Full native tensor library                          *)
(* (src/Aspire-Full.Tensor/Native/src/tensor_ops.cpp): the kernels, the    *)
(* device-memory primitives, the device-resident (_GPU) operations, the    *)
(* host-convenience operations and ValidateTensorContent, over a model of  *)
(* the CUDA runtime calls they make.                                       *)
(*                                                                         *)
(* Floats are modelled as exact rationals [num, den, k]: the value is      *)
(* num/den times 1.001^k (k counts the multiplications by 1.001f that      *)
(* vectorAdd applies).  Rounding is not modelled.                          *)
(***************************************************************************)
EXTENDS Integers, Sequences, FiniteSets, TLC

VARIABLES
    dmem,      \* live device buffers: handle -> [bytes, elem, data]
    faulted,   \* the CUDA context carries a sticky error
    events,    \* number of live timing events
    metrics,   \* the caller's TensorMetrics record
    h_Out,     \* host output buffer of the last host-convenience call
    h_G,       \* host buffer the caller copied the device result into
    pipe,      \* the caller's device-resident pipeline: phase and its pointers
    work,      \* the logical input the caller is working on
    last,      \* the last call: operation, allocation statuses, runtime-call trace
    klog,      \* the writes of the last kernel launch, per thread
    grid       \* the grid of the last launch configuration: <<x, y, z>> blocks

vars == <<dmem, faulted, events, metrics, h_Out, h_G, pipe, work, last, klog, grid>>

(***************************************************************************)
(* Bounds of the model                                                     *)
(***************************************************************************)
MaxKernels == 2    \* cap on active_kernels (ValidateTensorContent increments it)
MaxEvents  == 2    \* cap on leaked timing events
MaxSeq     == 3    \* sequence lengths of the data runs: 1..MaxSeq
MaxLen     == 2    \* vector lengths of the data runs: 1..MaxLen
MaxCount   == 258  \* element counts of the launch-coverage runs: 0..MaxCount
MaxTile    == 17   \* matrix extents of the launch-coverage runs: 0..MaxTile
MaxNear    == 256  \* counts within MaxNear of INT_MAX in the grid-sizing runs
MaxSide    == 2    \* small shape parameters 1..MaxSide in the size runs

(***************************************************************************)
(* Program constants                                                       *)
(***************************************************************************)
NULL            == 0
threadsPerBlock == 256
tileDim         == 16
sizeofFloat     == 4
sizeofLongLong  == 8
IntMax          == 2147483647

(***************************************************************************)
(* float arithmetic                                                        *)
(***************************************************************************)
Abs(n) == IF n < 0 THEN -n ELSE n

RECURSIVE GCD(_, _)
GCD(a, b) == IF b = 0 THEN a ELSE GCD(b, a % b)

Norm(n, d) ==
    LET g == GCD(Abs(n), d)
    IN  [num |-> n \div g, den |-> d \div g, k |-> 0]

F(n) == [num |-> n, den |-> 1, k |-> 0]

\* the content of device memory nobody has written yet
Indet == [num |-> 0, den |-> 0, k |-> 0]

FAdd(x, y) == Norm(x.num * y.den + y.num * x.den, x.den * y.den)
FMul(x, y) == Norm(x.num * y.num, x.den * y.den)
FDivInt(x, c) == Norm(x.num, x.den * c)
FGt(x, y) == x.num * y.den > y.num * x.den

fmaxf(x, y) == IF FGt(x, y) THEN x ELSE y

\* val * 1.001f
Mul1001(v) == [v EXCEPT !.k = @ + 1]

HostSeq(ints) == [i \in 1..Len(ints) |-> F(ints[i])]
Zeros(n) == [i \in 1..n |-> F(0)]

(***************************************************************************)
(* The CUDA runtime, as the library uses it.  A machine state m carries    *)
(* the device memory, the sticky-error flag, the live events, the host     *)
(* output buffer of the running call and the log of runtime calls.  Each   *)
(* log entry records whether a launched kernel was still unawaited when    *)
(* the call was issued.                                                    *)
(***************************************************************************)
Enter(host) ==
    [dmem |-> dmem, faulted |-> faulted, events |-> events, trace |-> <<>>,
     allocs |-> <<>>, req |-> <<>>, ptr |-> NULL, err |-> FALSE, host |-> host, val |-> 0,
     busy |-> FALSE, klog |-> {}, grid |-> <<0, 0, 0>>]

Log(m, call) == [m EXCEPT !.trace = Append(@, [call |-> call, busy |-> m.busy])]

Fresh(dm) ==
    CHOOSE h \in 1..(Cardinality(DOMAIN dm) + 1) :
        /\ h \notin DOMAIN dm
        /\ \A g \in 1..(h - 1) : g \in DOMAIN dm

RECURSIVE SumBytes(_, _)
SumBytes(dm, hs) ==
    IF hs = {} THEN 0
    ELSE LET h == CHOOSE x \in hs : TRUE
         IN  dm[h].bytes + SumBytes(dm, hs \ {h})

UsedBytes(dm) == SumBytes(dm, DOMAIN dm)

\* cudaMalloc(&ptr, sizeBytes): ptr is NULL before the call in every caller and
\* is left alone on failure.  ok is the device's answer to the request; under a
\* sticky error every runtime call fails.  A request of 0 bytes succeeds and
\* hands back no buffer.
cudaMalloc(m, sizeBytes, elem, ok) ==
    LET m1 == [Log(m, "cudaMalloc") EXCEPT
                  !.req = Append(@, [count |-> sizeBytes \div elem, elem |-> elem])]
    IN  IF m.faulted \/ ~ok
        THEN [m1 EXCEPT !.ptr = NULL, !.err = TRUE, !.allocs = Append(@, FALSE)]
        ELSE IF sizeBytes = 0
        THEN [m1 EXCEPT !.ptr = NULL, !.err = FALSE, !.allocs = Append(@, TRUE)]
        ELSE LET h == Fresh(m.dmem)
                 buf == [bytes |-> sizeBytes, elem |-> elem,
                         data |-> [i \in 1..(sizeBytes \div elem) |-> Indet]]
             IN  [m1 EXCEPT !.dmem = [x \in DOMAIN m.dmem \cup {h} |->
                                          IF x = h THEN buf ELSE m.dmem[x]],
                            !.ptr = h, !.err = FALSE,
                            !.allocs = Append(@, TRUE)]

\* cudaFree(ptr): a no-op on NULL; fails, releasing nothing, under a sticky error.
cudaFree(m, p) ==
    LET m1 == Log(m, "cudaFree")
    IN  IF m.faulted \/ p = NULL \/ p \notin DOMAIN m.dmem
        THEN m1
        ELSE [m1 EXCEPT !.dmem = [x \in DOMAIN m.dmem \ {p} |-> m.dmem[x]]]

\* cudaMemcpy(dst, src, sizeBytes, cudaMemcpyHostToDevice): blocking, so any
\* launched kernel has completed when it returns.
cudaMemcpyHostToDevice(m, dst, src, sizeBytes) ==
    LET m1 == [Log(m, "cudaMemcpyHostToDevice") EXCEPT !.busy = FALSE]
    IN  IF m.faulted \/ sizeBytes = 0 \/ dst \notin DOMAIN m.dmem
        THEN m1
        ELSE LET cnt == sizeBytes \div m.dmem[dst].elem
                 old == m.dmem[dst].data
             IN  [m1 EXCEPT !.dmem[dst].data =
                      [i \in 1..Len(old) |-> IF i <= cnt THEN src[i] ELSE old[i]]]

\* cudaMemcpy(dst, src, sizeBytes, cudaMemcpyDeviceToHost) into the host buffer
\* of the call.
cudaMemcpyDeviceToHost(m, src, sizeBytes) ==
    LET m1 == [Log(m, "cudaMemcpyDeviceToHost") EXCEPT !.busy = FALSE]
    IN  IF m.faulted \/ sizeBytes = 0 \/ src \notin DOMAIN m.dmem
        THEN m1
        ELSE LET cnt == sizeBytes \div m.dmem[src].elem
                 dat == m.dmem[src].data
             IN  [m1 EXCEPT !.host =
                      [i \in 1..Len(m.host) |-> IF i <= cnt THEN dat[i] ELSE m.host[i]]]

cudaEventCreate(m) ==
    LET m1 == Log(m, "cudaEventCreate")
    IN  IF m.faulted THEN m1 ELSE [m1 EXCEPT !.events = @ + 1]

cudaEventDestroy(m) ==
    LET m1 == Log(m, "cudaEventDestroy")
    IN  IF m.faulted THEN m1 ELSE [m1 EXCEPT !.events = @ - 1]

cudaEventRecord(m, ev) == Log(m, ev)

\* cudaEventSynchronize(stop): blocks until the device has passed the marker
cudaEventSynchronize(m) ==
    [Log(m, "cudaEventSynchronize(stop)") EXCEPT !.busy = FALSE]

\* cudaEventElapsedTime(&milliseconds, start, stop): milliseconds is 0 before
\* the call and stays 0 when the call fails.
cudaEventElapsedTime(m, ms) ==
    [Log(m, "cudaEventElapsedTime") EXCEPT !.val = IF m.faulted THEN 0 ELSE ms]

\* cudaMemGetInfo(&free_byte, &total_byte), read as total_byte - free_byte: the
\* bytes resident on the device.  When the call fails both variables are
\* uninitialised and the difference is any value (junk).
cudaMemGetInfo(m, junk) ==
    [Log(m, "cudaMemGetInfo") EXCEPT
        !.val = IF m.faulted THEN junk ELSE UsedBytes(m.dmem)]

\* (float)(total_byte - free_byte) / 1024.0f / 1024.0f
ToMB(bytes) == Norm(bytes, 1024 * 1024)

(***************************************************************************)
(* 32-bit int arithmetic of the launch configuration                       *)
(***************************************************************************)
\* a + b - 1 in two's complement
Wrap32(a, b) ==
    IF a <= IntMax - (b - 1)
    THEN a + (b - 1)
    ELSE ((a - IntMax) - 1) + (b - 1) + (-IntMax - 1)

\* what (a + b - 1) may evaluate to once the int sum a + b overflows, which is
\* undefined: the wrapped value, or either end of the range
Overflow(a, b) ==
    IF a > IntMax - b THEN {Wrap32(a, b), IntMax, -IntMax - 1} ELSE {0}

\* (a + b - 1) evaluated left to right in int; ub is the value it takes on overflow
I32Add(a, b, ub) == IF a > IntMax - b THEN ub ELSE a + b - 1

\* C's division truncates toward zero
CDiv(a, b) ==
    IF a >= 0 THEN a \div b
    ELSE IF a = -IntMax - 1
    THEN -((IntMax \div b) + (IF (IntMax % b) + 1 = b THEN 1 ELSE 0))
    ELSE -((-a) \div b)

\* (count + groupSize - 1) / groupSize
GridDim(count, groupSize, ub) == CDiv(I32Add(count, groupSize, ub), groupSize)

\* int blocksPerGrid = (numElements + threadsPerBlock - 1) / threadsPerBlock
Grid1D(numElements, ub) == GridDim(numElements, threadsPerBlock, ub)

\* the threads of a launch of gx x gy x gz blocks of dx x dy threads, each
\* <<blockIdx.x, blockIdx.y, blockIdx.z, threadIdx.x, threadIdx.y>>
Threads(gx, gy, gz, dx, dy) ==
    (0..(gx - 1)) \X (0..(gy - 1)) \X (0..(gz - 1)) \X (0..(dx - 1)) \X (0..(dy - 1))

(***************************************************************************)
(* The kernels, per thread t.  Each gives the thread's writes to its       *)
(* output buffer and whether the thread accesses memory outside a live     *)
(* buffer (a null or short buffer), which faults the launch.               *)
(***************************************************************************)
Valid(dm, p, i) == p \in DOMAIN dm /\ i >= 0 /\ i < Len(dm[p].data)
At(dm, p, i) == dm[p].data[i + 1]

\* a thread whose guard fails does nothing
Idle(t) == [t |-> <<>>, fault |-> FALSE, writes |-> {}]

RECURSIVE Times1001(_, _)
Times1001(val, k) == IF k = 0 THEN val ELSE Times1001(Mul1001(val), k - 1)

vectorAdd(dm, A, B, C, numElements, t) ==
    LET i == threadsPerBlock * t[1] + t[4]
    IN  IF i < numElements
        THEN IF Valid(dm, A, i) /\ Valid(dm, B, i) /\ Valid(dm, C, i)
             THEN [t |-> t, fault |-> FALSE,
                   writes |-> {[idx |-> i,
                                val |-> Times1001(FAdd(At(dm, A, i), At(dm, B, i)), 10)]}]
             ELSE [t |-> t, fault |-> TRUE, writes |-> {}]
        ELSE Idle(t)

\* the loop of matMulKernel from k on; ok turns FALSE on an invalid access
RECURSIVE MatMulLoop(_, _, _, _, _, _, _, _, _)
MatMulLoop(dm, A, B, row, col, N, K, k, acc) ==
    IF k >= K \/ ~acc.ok THEN acc
    ELSE IF Valid(dm, A, row * K + k) /\ Valid(dm, B, k * N + col)
    THEN MatMulLoop(dm, A, B, row, col, N, K, k + 1,
                    [ok |-> TRUE,
                     sum |-> FAdd(acc.sum, FMul(At(dm, A, row * K + k),
                                                At(dm, B, k * N + col)))])
    ELSE [ok |-> FALSE, sum |-> acc.sum]

matMulKernel(dm, A, B, C, M, N, K, t) ==
    LET row == t[2] * tileDim + t[5]
        col == t[1] * tileDim + t[4]
    IN  IF row < M /\ col < N
        THEN LET acc == MatMulLoop(dm, A, B, row, col, N, K, 0,
                                   [ok |-> TRUE, sum |-> F(0)])
             IN  IF acc.ok /\ Valid(dm, C, row * N + col)
                 THEN [t |-> t, fault |-> FALSE,
                       writes |-> {[idx |-> row * N + col, val |-> acc.sum]}]
                 ELSE [t |-> t, fault |-> TRUE, writes |-> {}]
        ELSE Idle(t)

\* the loop of meanPoolingKernel from s on
RECURSIVE PoolLoop(_, _, _, _, _, _, _, _, _)
PoolLoop(dm, input, attentionMask, b, h, seqLen, hiddenSize, s, acc) ==
    IF s >= seqLen \/ ~acc.ok THEN acc
    ELSE IF ~Valid(dm, attentionMask, b * seqLen + s)
    THEN [acc EXCEPT !.ok = FALSE]
    ELSE IF At(dm, attentionMask, b * seqLen + s) = 1
    THEN IF Valid(dm, input, (b * seqLen + s) * hiddenSize + h)
         THEN PoolLoop(dm, input, attentionMask, b, h, seqLen, hiddenSize, s + 1,
                       [ok |-> TRUE,
                        sum |-> FAdd(acc.sum,
                                     At(dm, input, (b * seqLen + s) * hiddenSize + h)),
                        count |-> acc.count + 1])
         ELSE [acc EXCEPT !.ok = FALSE]
    ELSE PoolLoop(dm, input, attentionMask, b, h, seqLen, hiddenSize, s + 1, acc)

\* meanPoolingKernel dividing by the sequence length instead of the number of
\* attended positions
meanPoolingKernel_DividesBySeqLen(dm, input, attentionMask, output, batchSize, seqLen, hiddenSize, t) ==
    LET b == t[3]
        h == t[1] * threadsPerBlock + t[4]
    IN  IF b < batchSize /\ h < hiddenSize
        THEN LET acc == PoolLoop(dm, input, attentionMask, b, h, seqLen, hiddenSize, 0,
                                 [ok |-> TRUE, sum |-> F(0), count |-> 0])
             IN  IF acc.ok /\ Valid(dm, output, b * hiddenSize + h)
                 THEN [t |-> t, fault |-> FALSE,
                       writes |-> {[idx |-> b * hiddenSize + h,
                                    val |-> IF acc.count > 0
                                            THEN FDivInt(acc.sum, seqLen)
                                            ELSE F(0)]}]
                 ELSE [t |-> t, fault |-> TRUE, writes |-> {}]
        ELSE Idle(t)

meanPoolingKernel(dm, input, attentionMask, output, batchSize, seqLen, hiddenSize, t) ==
    LET b == t[3]
        h == t[1] * threadsPerBlock + t[4]
    IN  IF b < batchSize /\ h < hiddenSize
        THEN LET acc == PoolLoop(dm, input, attentionMask, b, h, seqLen, hiddenSize, 0,
                                 [ok |-> TRUE, sum |-> F(0), count |-> 0])
             IN  IF acc.ok /\ Valid(dm, output, b * hiddenSize + h)
                 THEN [t |-> t, fault |-> FALSE,
                       writes |-> {[idx |-> b * hiddenSize + h,
                                    val |-> IF acc.count > 0
                                            THEN FDivInt(acc.sum, acc.count)
                                            ELSE F(0)]}]
                 ELSE [t |-> t, fault |-> TRUE, writes |-> {}]
        ELSE Idle(t)

reluKernel(dm, input, output, numElements, t) ==
    LET i == threadsPerBlock * t[1] + t[4]
    IN  IF i < numElements
        THEN IF Valid(dm, input, i) /\ Valid(dm, output, i)
             THEN [t |-> t, fault |-> FALSE,
                   writes |-> {[idx |-> i, val |-> fmaxf(F(0), At(dm, input, i))]}]
             ELSE [t |-> t, fault |-> TRUE, writes |-> {}]
        ELSE Idle(t)

(***************************************************************************)
(* kernel<<<g, block>>>(...): ran is what each thread of the launch did.    *)
(* Under a sticky error, or with an empty grid (an invalid configuration), *)
(* no kernel runs.  An access outside a live buffer is an                  *)
(* illegal address: the kernel is aborted and the error is sticky.         *)
(***************************************************************************)
Launch(m, g, ran, out) ==
    LET m1 == [Log(m, "launch") EXCEPT !.grid = g]
        W == UNION {r.writes : r \in ran}
        old == m.dmem[out].data
    IN  IF m.faulted \/ g[1] <= 0 \/ g[2] <= 0 \/ g[3] <= 0
        THEN m1
        ELSE IF \E r \in ran : r.fault
        THEN [m1 EXCEPT !.faulted = TRUE, !.busy = TRUE]
        ELSE IF W = {}
        THEN [m1 EXCEPT !.busy = TRUE]
        ELSE [m1 EXCEPT
                !.busy = TRUE,
                !.klog = UNION {{[t |-> r.t, idx |-> w.idx] : w \in r.writes} : r \in ran},
                !.dmem[out].data =
                    [j \in 1..Len(old) |->
                        IF \E w \in W : w.idx = j - 1
                        THEN (CHOOSE w \in W : w.idx = j - 1).val
                        ELSE old[j]]]

(***************************************************************************)
(* The operations.  m is the machine state at entry, met the caller's      *)
(* TensorMetrics record and mp whether the metrics pointer is non-null.    *)
(* env holds what the environment decides during the call: ok[i], the      *)
(* answer to the i-th cudaMalloc; ms, the elapsed time; junk, the value    *)
(* of an uninitialised read; ub, the value a signed overflow leaves.       *)
(* Each operation yields [m, metrics, ret].                                *)
(***************************************************************************)
\* dim3 arithmetic is unsigned: (n + threadsPerBlock.x - 1) / threadsPerBlock.x
Grid2D(n) == (n + tileDim - 1) \div tileDim

\* the element count an int product yields, and the bytes of that many elements
\* x * y for 16-bit x and y, as the 16-bit halves of the 32-bit product
Mul16(x, y) ==
    LET p1 == x * (y % 256)
        p2 == x * (y \div 256)
        t == (p2 % 256) * 256 + p1
    IN  [hi |-> ((p2 \div 256) + (t \div 65536)) % 65536, lo |-> t % 65536]

\* a * b in two's complement: the low 32 bits of the product, read as an int
WMul(a, b) ==
    LET al == a % 65536
        ah == (a \div 65536) % 65536
        bl == b % 65536
        bh == (b \div 65536) % 65536
        low == Mul16(al, bl)
        hi == (Mul16(ah, bl).lo + Mul16(al, bh).lo + low.hi) % 65536
    IN  (IF hi >= 32768 THEN hi - 65536 ELSE hi) * 65536 + low.lo

\* the int product a * b does not fit the int, for a, b >= 0
Ovf2(a, b) == b # 0 /\ a > IntMax \div b
Ovf3(a, b, c) == Ovf2(a, b) \/ Ovf2(a * b, c)

\* what an int product may evaluate to once it overflows, which is undefined:
\* the wrapped value, or either end of the range
MulOverflow(ovf, wrapped) == IF ovf THEN {wrapped, IntMax, -IntMax - 1} ELSE {0}

\* the int products a * b and a * b * c of the size computations; ub is the
\* value the product takes on overflow
Elems2(a, b, ub) == IF Ovf2(a, b) THEN ub ELSE a * b
Elems3(a, b, c, ub) == IF Ovf3(a, b, c) THEN ub ELSE (a * b) * c
Bytes(count, elemSize) == count * elemSize

Done(m, met, ret) == [m |-> m, metrics |-> met, ret |-> ret]

\* TimedMetrics clearing the memory sample as well
TimedMetrics_ResetsMemory(met, mp, milliseconds) ==
    IF mp
    THEN [met EXCEPT !.compute_time_ms = F(milliseconds), !.memory_usage_mb = F(0),
                     !.active_kernels = 1]
    ELSE met

\* if (metrics != NULL) { compute_time_ms = milliseconds; active_kernels = 1; }
TimedMetrics(met, mp, milliseconds) ==
    IF mp
    THEN [met EXCEPT !.compute_time_ms = F(milliseconds), !.active_kernels = 1]
    ELSE met

\* if (metrics != NULL) { compute_time_ms = milliseconds; cudaMemGetInfo(...);
\*   memory_usage_mb = (total_byte - free_byte) / 1024 / 1024; active_kernels = 1; }
SampledMetrics(m, met, mp, milliseconds, junk) ==
    IF mp
    THEN LET g == cudaMemGetInfo(m, junk)
         IN  [m |-> g,
              metrics |-> [met EXCEPT !.compute_time_ms = F(milliseconds),
                                      !.memory_usage_mb = ToMB(g.val),
                                      !.active_kernels = 1]]
    ELSE [m |-> m, metrics |-> met]

MatrixMultiply_GPU(m, d_A, d_B, d_C, M, N, K, met, mp, env) ==
    LET m1 == cudaEventCreate(m)
        m2 == cudaEventCreate(m1)
        m3 == cudaEventRecord(m2, "cudaEventRecord(start)")
        m4 == Launch(m3, <<Grid2D(N), Grid2D(M), 1>>,
                     {matMulKernel(m3.dmem, d_A, d_B, d_C, M, N, K, t) :
                        t \in Threads(Grid2D(N), Grid2D(M), 1, tileDim, tileDim)},
                     d_C)
        m5 == cudaEventRecord(m4, "cudaEventRecord(stop)")
        m6 == cudaEventSynchronize(m5)
        m7 == cudaEventElapsedTime(m6, env.ms)
        m8 == cudaEventDestroy(m7)
        m9 == cudaEventDestroy(m8)
    IN  Done(m9, TimedMetrics(met, mp, m7.val), 0)

MeanPooling_GPU(m, d_Input, d_AttentionMask, d_Output, batchSize, seqLen, hiddenSize, met, mp, env) ==
    LET m1 == cudaEventCreate(m)
        m2 == cudaEventCreate(m1)
        m3 == cudaEventRecord(m2, "cudaEventRecord(start)")
        m4 == Launch(m3, <<Grid1D(hiddenSize, env.ub), 1, batchSize>>,
                     {meanPoolingKernel(m3.dmem, d_Input, d_AttentionMask, d_Output,
                                            batchSize, seqLen, hiddenSize, t) :
                        t \in Threads(Grid1D(hiddenSize, env.ub), 1, batchSize, threadsPerBlock, 1)},
                     d_Output)
        m5 == cudaEventRecord(m4, "cudaEventRecord(stop)")
        m6 == cudaEventSynchronize(m5)
        m7 == cudaEventElapsedTime(m6, env.ms)
        m8 == cudaEventDestroy(m7)
        m9 == cudaEventDestroy(m8)
    IN  Done(m9, TimedMetrics(met, mp, m7.val), 0)

\* ReluActivation_GPU reading the elapsed time before it waits on the stop event
ReluActivation_GPU_ReadsEarly(m, d_Input, d_Output, numElements, met, mp, env) ==
    LET m1 == cudaEventCreate(m)
        m2 == cudaEventCreate(m1)
        m3 == cudaEventRecord(m2, "cudaEventRecord(start)")
        m4 == Launch(m3, <<Grid1D(numElements, env.ub), 1, 1>>,
                     {reluKernel(m3.dmem, d_Input, d_Output, numElements, t) :
                        t \in Threads(Grid1D(numElements, env.ub), 1, 1, threadsPerBlock, 1)},
                     d_Output)
        m5 == cudaEventRecord(m4, "cudaEventRecord(stop)")
        m6 == cudaEventElapsedTime(m5, env.ms)
        m7 == cudaEventSynchronize(m6)
        m8 == cudaEventDestroy(m7)
        m9 == cudaEventDestroy(m8)
    IN  Done(m9, TimedMetrics(met, mp, m6.val), 0)

\* ReluActivation_GPU rectifying its input buffer in place
ReluActivation_GPU_InPlace(m, d_Input, d_Output, numElements, met, mp, env) ==
    LET m1 == cudaEventCreate(m)
        m2 == cudaEventCreate(m1)
        m3 == cudaEventRecord(m2, "cudaEventRecord(start)")
        m4 == Launch(m3, <<Grid1D(numElements, env.ub), 1, 1>>,
                     {reluKernel(m3.dmem, d_Input, d_Input, numElements, t) :
                        t \in Threads(Grid1D(numElements, env.ub), 1, 1, threadsPerBlock, 1)},
                     d_Input)
        m5 == cudaEventRecord(m4, "cudaEventRecord(stop)")
        m6 == cudaEventSynchronize(m5)
        m7 == cudaEventElapsedTime(m6, env.ms)
        m8 == cudaEventDestroy(m7)
        m9 == cudaEventDestroy(m8)
    IN  Done(m9, TimedMetrics(met, mp, m7.val), 0)

ReluActivation_GPU(m, d_Input, d_Output, numElements, met, mp, env) ==
    LET m1 == cudaEventCreate(m)
        m2 == cudaEventCreate(m1)
        m3 == cudaEventRecord(m2, "cudaEventRecord(start)")
        m4 == Launch(m3, <<Grid1D(numElements, env.ub), 1, 1>>,
                     {reluKernel(m3.dmem, d_Input, d_Output, numElements, t) :
                        t \in Threads(Grid1D(numElements, env.ub), 1, 1, threadsPerBlock, 1)},
                     d_Output)
        m5 == cudaEventRecord(m4, "cudaEventRecord(stop)")
        m6 == cudaEventSynchronize(m5)
        m7 == cudaEventElapsedTime(m6, env.ms)
        m8 == cudaEventDestroy(m7)
        m9 == cudaEventDestroy(m8)
    IN  Done(m9, TimedMetrics(met, mp, m7.val), 0)

\* ComputeTensorOp from the copies on, all three buffers allocated
ComputeTensorOpRun(m, d_A, d_B, d_C, h_A, h_B, numElements, size, met, mp, env) ==
    LET m1 == cudaMemcpyHostToDevice(m, d_A, h_A, size)
        m2 == cudaMemcpyHostToDevice(m1, d_B, h_B, size)
        m3 == cudaEventRecord(m2, "cudaEventRecord(start)")
        m4 == Launch(m3, <<Grid1D(numElements, env.ub), 1, 1>>,
                     {vectorAdd(m3.dmem, d_A, d_B, d_C, numElements, t) :
                        t \in Threads(Grid1D(numElements, env.ub), 1, 1, threadsPerBlock, 1)},
                     d_C)
        m5 == cudaEventRecord(m4, "cudaEventRecord(stop)")
        m6 == cudaMemcpyDeviceToHost(m5, d_C, size)
        m7 == cudaEventSynchronize(m6)
        m8 == cudaEventElapsedTime(m7, env.ms)
        sm == SampledMetrics(m8, met, mp, m8.val, env.junk)
        m9 == cudaFree(cudaFree(cudaFree(sm.m, d_A), d_B), d_C)
    IN  Done(cudaEventDestroy(cudaEventDestroy(m9)), sm.metrics, 0)

ComputeTensorOp(m, h_A, h_B, numElements, met, mp, env) ==
    LET size == Bytes(numElements, sizeofFloat)
        e == cudaEventCreate(cudaEventCreate(m))
        a == cudaMalloc(e, size, sizeofFloat, env.ok[1])
        b == cudaMalloc(a, size, sizeofFloat, env.ok[2])
        c == cudaMalloc(b, size, sizeofFloat, env.ok[3])
    IN  IF a.err THEN Done(a, met, 0)
        ELSE IF b.err THEN Done(cudaFree(b, a.ptr), met, 0)
        ELSE IF c.err THEN Done(cudaFree(cudaFree(c, a.ptr), b.ptr), met, 0)
        ELSE ComputeTensorOpRun(c, a.ptr, b.ptr, c.ptr, h_A, h_B, numElements, size,
                                met, mp, env)

MatrixMultiply(m, h_A, h_B, M, N, K, met, mp, env) ==
    LET sizeA == Bytes(Elems2(M, K, env.sz[1]), sizeofFloat)
        sizeB == Bytes(Elems2(K, N, env.sz[2]), sizeofFloat)
        sizeC == Bytes(Elems2(M, N, env.sz[3]), sizeofFloat)
        e == cudaEventCreate(cudaEventCreate(m))
        a == cudaMalloc(e, sizeA, sizeofFloat, env.ok[1])
        b == cudaMalloc(a, sizeB, sizeofFloat, env.ok[2])
        c == cudaMalloc(b, sizeC, sizeofFloat, env.ok[3])
        m1 == cudaMemcpyHostToDevice(c, a.ptr, h_A, sizeA)
        m2 == cudaMemcpyHostToDevice(m1, b.ptr, h_B, sizeB)
        m3 == cudaEventRecord(m2, "cudaEventRecord(start)")
        m4 == Launch(m3, <<Grid2D(N), Grid2D(M), 1>>,
                     {matMulKernel(m3.dmem, a.ptr, b.ptr, c.ptr, M, N, K, t) :
                        t \in Threads(Grid2D(N), Grid2D(M), 1, tileDim, tileDim)},
                     c.ptr)
        m5 == cudaEventRecord(m4, "cudaEventRecord(stop)")
        m6 == cudaMemcpyDeviceToHost(m5, c.ptr, sizeC)
        m7 == cudaEventSynchronize(m6)
        m8 == cudaEventElapsedTime(m7, env.ms)
        sm == SampledMetrics(m8, met, mp, m8.val, env.junk)
        m9 == cudaFree(cudaFree(cudaFree(sm.m, a.ptr), b.ptr), c.ptr)
    IN  Done(cudaEventDestroy(cudaEventDestroy(m9)), sm.metrics, 0)

MeanPooling(m, h_Input, h_AttentionMask, batchSize, seqLen, hiddenSize, met, mp, env) ==
    LET sizeInput == Bytes(Elems3(batchSize, seqLen, hiddenSize, env.sz[1]), sizeofFloat)
        sizeMask == Bytes(Elems2(batchSize, seqLen, env.sz[2]), sizeofLongLong)
        sizeOutput == Bytes(Elems2(batchSize, hiddenSize, env.sz[3]), sizeofFloat)
        e == cudaEventCreate(cudaEventCreate(m))
        a == cudaMalloc(e, sizeInput, sizeofFloat, env.ok[1])
        b == cudaMalloc(a, sizeMask, sizeofLongLong, env.ok[2])
        c == cudaMalloc(b, sizeOutput, sizeofFloat, env.ok[3])
        m1 == cudaMemcpyHostToDevice(c, a.ptr, h_Input, sizeInput)
        m2 == cudaMemcpyHostToDevice(m1, b.ptr, h_AttentionMask, sizeMask)
        m3 == cudaEventRecord(m2, "cudaEventRecord(start)")
        m4 == Launch(m3, <<Grid1D(hiddenSize, env.ub), 1, batchSize>>,
                     {meanPoolingKernel(m3.dmem, a.ptr, b.ptr, c.ptr,
                                            batchSize, seqLen, hiddenSize, t) :
                        t \in Threads(Grid1D(hiddenSize, env.ub), 1, batchSize, threadsPerBlock, 1)},
                     c.ptr)
        m5 == cudaEventRecord(m4, "cudaEventRecord(stop)")
        m6 == cudaMemcpyDeviceToHost(m5, c.ptr, sizeOutput)
        m7 == cudaEventSynchronize(m6)
        m8 == cudaEventElapsedTime(m7, env.ms)
        sm == SampledMetrics(m8, met, mp, m8.val, env.junk)
        m9 == cudaFree(cudaFree(cudaFree(sm.m, a.ptr), b.ptr), c.ptr)
    IN  Done(cudaEventDestroy(cudaEventDestroy(m9)), sm.metrics, 0)

ReluActivation(m, h_Input, numElements, met, mp, env) ==
    LET size == Bytes(numElements, sizeofFloat)
        e == cudaEventCreate(cudaEventCreate(m))
        a == cudaMalloc(e, size, sizeofFloat, env.ok[1])
        c == cudaMalloc(a, size, sizeofFloat, env.ok[2])
        m1 == cudaMemcpyHostToDevice(c, a.ptr, h_Input, size)
        m3 == cudaEventRecord(m1, "cudaEventRecord(start)")
        m4 == Launch(m3, <<Grid1D(numElements, env.ub), 1, 1>>,
                     {reluKernel(m3.dmem, a.ptr, c.ptr, numElements, t) :
                        t \in Threads(Grid1D(numElements, env.ub), 1, 1, threadsPerBlock, 1)},
                     c.ptr)
        m5 == cudaEventRecord(m4, "cudaEventRecord(stop)")
        m6 == cudaMemcpyDeviceToHost(m5, c.ptr, size)
        m7 == cudaEventSynchronize(m6)
        m8 == cudaEventElapsedTime(m7, env.ms)
        sm == SampledMetrics(m8, met, mp, m8.val, env.junk)
        m9 == cudaFree(cudaFree(sm.m, a.ptr), c.ptr)
    IN  Done(cudaEventDestroy(cudaEventDestroy(m9)), sm.metrics, 0)

\* ValidateTensorContent rejecting data with an element above the threshold
ValidateTensorContent_Thresholded(m, h_Data, numElements, threshold, met, mp, env) ==
    LET size == Bytes(numElements, sizeofFloat)
        a == cudaMalloc(m, size, sizeofFloat, env.ok[1])
        m1 == cudaMemcpyHostToDevice(a, a.ptr, h_Data, size)
        m2 == cudaFree(m1, a.ptr)
    IN  IF a.err THEN Done(a, met, -1)
        ELSE IF \E i \in 1..numElements : FGt(h_Data[i], F(threshold))
        THEN Done(m2, met, 0)
        ELSE Done(m2, IF mp THEN [met EXCEPT !.active_kernels = @ + 1] ELSE met, 1)

\* threshold and the contents of h_Data decide nothing
ValidateTensorContent(m, h_Data, numElements, threshold, met, mp, env) ==
    LET size == Bytes(numElements, sizeofFloat)
        a == cudaMalloc(m, size, sizeofFloat, env.ok[1])
        m1 == cudaMemcpyHostToDevice(a, a.ptr, h_Data, size)
        m2 == cudaFree(m1, a.ptr)
    IN  IF a.err THEN Done(a, met, -1)
        ELSE Done(m2, IF mp THEN [met EXCEPT !.active_kernels = @ + 1] ELSE met, 1)

\* the memory-management exports
AllocateDeviceMemory(m, sizeBytes, env) == cudaMalloc(m, sizeBytes, sizeofFloat, env.ok[1])
AllocateDeviceMemoryLong(m, sizeBytes, env) == cudaMalloc(m, sizeBytes, sizeofLongLong, env.ok[1])
FreeDeviceMemory(m, d_ptr) == cudaFree(m, d_ptr)
FreeDeviceMemoryLong(m, d_ptr) == cudaFree(m, d_ptr)
CopyToDevice(m, d_dst, h_src, sizeBytes) == cudaMemcpyHostToDevice(m, d_dst, h_src, sizeBytes)
CopyToDeviceLong(m, d_dst, h_src, sizeBytes) == cudaMemcpyHostToDevice(m, d_dst, h_src, sizeBytes)
\* CopyToHost leaving out the last element
CopyToHost_Short(m, d_src, sizeBytes) == cudaMemcpyDeviceToHost(m, d_src, sizeBytes - sizeofFloat)
CopyToHost(m, d_src, sizeBytes) == cudaMemcpyDeviceToHost(m, d_src, sizeBytes)

(***************************************************************************)
(* The caller.  It works on one logical input at a time (work), calls the  *)
(* host-convenience operation of that input and ValidateTensorContent in   *)
(* any order, and drives the device-resident pipeline of the same input:   *)
(* allocate the buffers, copy the inputs in, run the _GPU variant, copy    *)
(* the output back, free the buffers.  The caller checks every pointer it  *)
(* is handed before use and passes buffers that fit the shape.             *)
(***************************************************************************)
JunkBytes == {0, 1024 * 1024}

\* the elapsed time the device reports, in milliseconds
Elapsed == {1}

AllTrue(sq) == \A i \in 1..Len(sq) : sq[i]

AnyOK == [1..3 -> BOOLEAN]
AllOK == {[i \in 1..3 |-> TRUE]}
\* the answers that differ for an operation that makes n allocations and, with
\* stops, returns at the first failure
Answers(OKs, n, stops) ==
    {ok \in OKs : /\ \A i \in (n + 1)..3 : ok[i]
                  /\ stops => \A i \in 1..3 : ~ok[i] => \A j \in (i + 1)..3 : ok[j]}
\* an uninitialised value is read only on a failed cudaMemGetInfo, which only a
\* call with a metrics record makes
Junk(ok, mp) == IF mp /\ ~AllTrue(ok) THEN JunkBytes ELSE {0}

EnvSz(ok, ms, junk, ub, sz) == [ok |-> ok, ms |-> ms, junk |-> junk, ub |-> ub, sz |-> sz]
Env(ok, ms, junk, ub) == EnvSz(ok, ms, junk, ub, <<0, 0, 0>>)

\* the values the three size products of MatrixMultiply and of MeanPooling may
\* take on overflow
MatMulOverflows(M, N, K) ==
    MulOverflow(Ovf2(M, K), WMul(M, K)) \X MulOverflow(Ovf2(K, N), WMul(K, N)) \X MulOverflow(Ovf2(M, N), WMul(M, N))
PoolOverflows(b, s, h) ==
    MulOverflow(Ovf3(b, s, h), WMul(WMul(b, s), h)) \X MulOverflow(Ovf2(b, s), WMul(b, s)) \X MulOverflow(Ovf2(b, h), WMul(b, h))

NoCall == [op |-> "none", kind |-> "none", allocs |-> <<>>, req |-> <<>>, trace |-> <<>>, ret |-> 0, mp |-> FALSE]
NoBuf == [done |-> FALSE, buf |-> <<>>]
IdlePipe == [phase |-> "idle", a |-> NULL, b |-> NULL, c |-> NULL]

\* host arrays
PatA(i) == ((i * 3) % 5) - 1
PatB(i) == ((i * 2) % 3) + 1
PoolIn(i, hiddenSize) == ((i \div hiddenSize) + 1) * (IF i % hiddenSize = 0 THEN 1 ELSE 10 * (i % hiddenSize))
FloatsA(n) == [i \in 1..n |-> F(PatA(i - 1))]
FloatsB(n) == [i \in 1..n |-> F(PatB(i - 1))]
PoolInput(n, hiddenSize) == [i \in 1..n |-> F(PoolIn(i - 1, hiddenSize))]

AddWork(n) == [kind |-> "add", d1 |-> n, d2 |-> 0, d3 |-> 0, A |-> FloatsA(n), B |-> FloatsB(n)]
ReluWork(x) == [kind |-> "relu", d1 |-> Len(x), d2 |-> 0, d3 |-> 0, A |-> x, B |-> <<>>]
MatMulWork(M, N, K) == [kind |-> "matmul", d1 |-> M, d2 |-> N, d3 |-> K, A |-> FloatsA(M * K), B |-> FloatsB(K * N)]
PoolWork(b, s, h, mask) == [kind |-> "pool", d1 |-> b, d2 |-> s, d3 |-> h, A |-> PoolInput(b * s * h, h), B |-> mask]

\* a count alone, too large to hold data for
CountWork(n) == [kind |-> "count", d1 |-> n, d2 |-> 0, d3 |-> 0, A |-> <<>>, B |-> <<>>]
ShapeWork(kind, x, y, z) == [kind |-> kind, d1 |-> x, d2 |-> y, d3 |-> z, A |-> <<>>, B |-> <<>>]

\* the inputs of the resource runs
WorkMain ==
    {AddWork(2), ReluWork(<<F(-1), F(2)>>), MatMulWork(2, 1, 2),
     PoolWork(1, 3, 2, <<1, 0, 1>>)}

\* the shape of the output of the work, in elements
OutLen(w) ==
    CASE w.kind = "add" -> w.d1
      [] w.kind = "relu" -> w.d1
      [] w.kind = "matmul" -> w.d1 * w.d2
      [] w.kind = "pool" -> w.d1 * w.d3
      [] OTHER -> 0

InitWith(W) ==
    /\ dmem = << >>
    /\ faulted = FALSE
    /\ events = 0
    /\ metrics = [compute_time_ms |-> F(0), memory_usage_mb |-> F(0), active_kernels |-> 0]
    /\ h_Out = NoBuf
    /\ h_G = NoBuf
    /\ pipe = IdlePipe
    /\ work \in W
    /\ last = NoCall
    /\ klog = {}
    /\ grid = <<0, 0, 0>>

\* the state after a call that yielded r.  A sticky error leaves the process
\* unable to use the device: the caller makes no call after it.
Commit(op, kind, r, mp) ==
    /\ ~faulted
    /\ r.m.events <= MaxEvents
    /\ r.metrics.active_kernels <= MaxKernels
    /\ dmem' = r.m.dmem
    /\ faulted' = r.m.faulted
    /\ events' = r.m.events
    /\ metrics' = r.metrics
    /\ klog' = r.m.klog
    /\ grid' = r.m.grid
    /\ last' = [op |-> op, kind |-> kind, allocs |-> r.m.allocs, req |-> r.m.req, trace |-> r.m.trace, ret |-> r.ret, mp |-> mp]

HostCommit(op, r, mp) ==
    /\ Commit(op, "host", r, mp)
    /\ h_Out' = [done |-> AllTrue(r.m.allocs) /\ ~r.m.faulted, buf |-> r.m.host]
    /\ UNCHANGED <<h_G, pipe, work>>

DoComputeTensorOp(OKs, MPs) ==
    /\ work.kind = "add"
    /\ \E ok \in Answers(OKs, 3, TRUE), ms \in Elapsed, mp \in MPs, ub \in Overflow(work.d1, threadsPerBlock) : \E junk \in Junk(ok, mp) :
         HostCommit("ComputeTensorOp", ComputeTensorOp(Enter(Zeros(OutLen(work))), work.A, work.B, work.d1, metrics, mp, Env(ok, ms, junk, ub)), mp)

DoMatrixMultiply(OKs, MPs) ==
    /\ work.kind = "matmul"
    /\ \E ok \in Answers(OKs, 3, FALSE), ms \in Elapsed, mp \in MPs, sz \in MatMulOverflows(work.d1, work.d2, work.d3) : \E junk \in Junk(ok, mp) :
         HostCommit("MatrixMultiply", MatrixMultiply(Enter(Zeros(OutLen(work))), work.A, work.B, work.d1, work.d2, work.d3, metrics, mp, EnvSz(ok, ms, junk, 0, sz)), mp)

DoMeanPooling(OKs, MPs) ==
    /\ work.kind = "pool"
    /\ \E ok \in Answers(OKs, 3, FALSE), ms \in Elapsed, mp \in MPs, ub \in Overflow(work.d3, threadsPerBlock), sz \in PoolOverflows(work.d1, work.d2, work.d3) : \E junk \in Junk(ok, mp) :
         HostCommit("MeanPooling", MeanPooling(Enter(Zeros(OutLen(work))), work.A, work.B, work.d1, work.d2, work.d3, metrics, mp, EnvSz(ok, ms, junk, ub, sz)), mp)

DoReluActivation(OKs, MPs) ==
    /\ work.kind = "relu"
    /\ \E ok \in Answers(OKs, 2, FALSE), ms \in Elapsed, mp \in MPs, ub \in Overflow(work.d1, threadsPerBlock) : \E junk \in Junk(ok, mp) :
         HostCommit("ReluActivation", ReluActivation(Enter(Zeros(OutLen(work))), work.A, work.d1, metrics, mp, Env(ok, ms, junk, ub)), mp)

Thresholds == {0, 1}

DoValidateTensorContent(OKs, MPs) ==
    /\ Len(work.A) > 0
    /\ \E ok \in Answers(OKs, 1, FALSE), threshold \in Thresholds, mp \in MPs :
         /\ Commit("ValidateTensorContent", "validate", ValidateTensorContent(Enter(<<>>), work.A, Len(work.A), threshold, metrics, mp, Env(ok, 0, 0, 0)), mp)
         /\ UNCHANGED <<h_Out, h_G, pipe, work>>

\* the pointers the pipeline of w needs, in the order the caller allocates them
Needed(w) ==
    CASE w.kind = "matmul" -> <<"a", "b", "c">>
      [] w.kind = "pool" -> <<"a", "b", "c">>
      [] w.kind = "relu" -> <<"a", "c">>
      [] OTHER -> <<>>

\* the bytes the caller asks for
SlotBytes(w, slot) ==
    CASE w.kind = "matmul" /\ slot = "a" -> w.d1 * w.d3 * sizeofFloat
      [] w.kind = "matmul" /\ slot = "b" -> w.d3 * w.d2 * sizeofFloat
      [] w.kind = "matmul" /\ slot = "c" -> w.d1 * w.d2 * sizeofFloat
      [] w.kind = "pool" /\ slot = "a" -> w.d1 * w.d2 * w.d3 * sizeofFloat
      [] w.kind = "pool" /\ slot = "b" -> w.d1 * w.d2 * sizeofLongLong
      [] w.kind = "pool" /\ slot = "c" -> w.d1 * w.d3 * sizeofFloat
      [] OTHER -> w.d1 * sizeofFloat

IsLong(w, slot) == w.kind = "pool" /\ slot = "b"

Unset(p, w) == {i \in 1..Len(Needed(w)) : p[Needed(w)[i]] = NULL}
Held(p) == {slot \in {"a", "b", "c"} : p[slot] # NULL}
FirstHeld(p) == IF p.a # NULL THEN "a" ELSE IF p.b # NULL THEN "b" ELSE "c"

MemCommit(op, m) ==
    /\ Commit(op, "mem", Done(m, metrics, 0), FALSE)
    /\ UNCHANGED <<h_Out, work>>

\* AllocateDeviceMemory / AllocateDeviceMemoryLong for the next pointer
DevAllocate(OKs) ==
    /\ pipe.phase \in {"idle", "alloc"}
    /\ Unset(pipe, work) # {}
    /\ OutLen(work) > 0
    /\ LET i == CHOOSE x \in Unset(pipe, work) : \A y \in Unset(pipe, work) : x <= y
           slot == Needed(work)[i]
       IN  \E ok \in Answers(OKs, 1, FALSE) :
             LET m == IF IsLong(work, slot)
                      THEN AllocateDeviceMemoryLong(Enter(<<>>), SlotBytes(work, slot), Env(ok, 0, 0, 0))
                      ELSE AllocateDeviceMemory(Enter(<<>>), SlotBytes(work, slot), Env(ok, 0, 0, 0))
                 p == [pipe EXCEPT ![slot] = m.ptr]
             IN  /\ MemCommit(IF IsLong(work, slot) THEN "AllocateDeviceMemoryLong" ELSE "AllocateDeviceMemory", m)
                 /\ pipe' = [p EXCEPT !.phase =
                                IF m.ptr = NULL
                                THEN (IF Held(pipe) = {} THEN "idle" ELSE "free")
                                ELSE IF Unset(p, work) = {} THEN "ready" ELSE "alloc"]
                 /\ UNCHANGED h_G

\* CopyToDevice / CopyToDeviceLong of the next input
DevCopyIn ==
    /\ pipe.phase \in {"ready", "inA"}
    /\ LET slot == IF pipe.phase = "ready" THEN "a" ELSE "b"
           src == IF slot = "a" THEN work.A ELSE work.B
           m == IF IsLong(work, slot)
                THEN CopyToDeviceLong(Enter(<<>>), pipe[slot], src, SlotBytes(work, slot))
                ELSE CopyToDevice(Enter(<<>>), pipe[slot], src, SlotBytes(work, slot))
       IN  /\ MemCommit(IF IsLong(work, slot) THEN "CopyToDeviceLong" ELSE "CopyToDevice", m)
           /\ pipe' = [pipe EXCEPT !.phase =
                          IF slot = "a" /\ work.kind # "relu" THEN "inA" ELSE "loaded"]
           /\ UNCHANGED h_G

GpuCommit(op, r, mp) ==
    /\ Commit(op, "gpu", r, mp)
    /\ pipe' = [pipe EXCEPT !.phase = "ran"]
    /\ UNCHANGED <<h_Out, h_G, work>>

DoMatrixMultiply_GPU(MPs) ==
    /\ pipe.phase \in {"loaded", "ran"}
    /\ work.kind = "matmul"
    /\ \E ms \in Elapsed, mp \in MPs :
         GpuCommit("MatrixMultiply_GPU", MatrixMultiply_GPU(Enter(<<>>), pipe.a, pipe.b, pipe.c, work.d1, work.d2, work.d3, metrics, mp, Env(<<>>, ms, 0, 0)), mp)

DoMeanPooling_GPU(MPs) ==
    /\ pipe.phase \in {"loaded", "ran"}
    /\ work.kind = "pool"
    /\ \E ms \in Elapsed, mp \in MPs, ub \in Overflow(work.d3, threadsPerBlock) :
         GpuCommit("MeanPooling_GPU", MeanPooling_GPU(Enter(<<>>), pipe.a, pipe.b, pipe.c, work.d1, work.d2, work.d3, metrics, mp, Env(<<>>, ms, 0, ub)), mp)

DoReluActivation_GPU(MPs) ==
    /\ pipe.phase \in {"loaded", "ran"}
    /\ work.kind = "relu"
    /\ \E ms \in Elapsed, mp \in MPs, ub \in Overflow(work.d1, threadsPerBlock) :
         GpuCommit("ReluActivation_GPU", ReluActivation_GPU(Enter(<<>>), pipe.a, pipe.c, work.d1, metrics, mp, Env(<<>>, ms, 0, ub)), mp)

\* CopyToHost of the output buffer
DevCopyOut ==
    /\ pipe.phase = "ran"
    /\ LET m == CopyToHost(Enter(Zeros(OutLen(work))), pipe.c, SlotBytes(work, "c"))
       IN  /\ MemCommit("CopyToHost", m)
           /\ h_G' = [done |-> TRUE, buf |-> m.host]
           /\ UNCHANGED pipe

\* FreeDeviceMemory / FreeDeviceMemoryLong of the first pointer still held
DevFree ==
    /\ Held(pipe) # {}
    /\ LET slot == FirstHeld(pipe)
           m == IF IsLong(work, slot)
                THEN FreeDeviceMemoryLong(Enter(<<>>), pipe[slot])
                ELSE FreeDeviceMemory(Enter(<<>>), pipe[slot])
           p == [pipe EXCEPT ![slot] = NULL]
       IN  /\ MemCommit(IF IsLong(work, slot) THEN "FreeDeviceMemoryLong" ELSE "FreeDeviceMemory", m)
           /\ pipe' = [p EXCEPT !.phase = IF Held(p) = {} THEN "idle" ELSE "free"]
           /\ UNCHANGED h_G

(***************************************************************************)
(* The resource runs: the host-convenience operations and                  *)
(* ValidateTensorContent with allocations that may fail, beside buffers    *)
(* the caller allocates and frees.                                         *)
(***************************************************************************)
Init == InitWith(WorkMain)

Next ==
    \/ DoComputeTensorOp(AnyOK, BOOLEAN)
    \/ DoMatrixMultiply(AnyOK, BOOLEAN)
    \/ DoMeanPooling(AnyOK, BOOLEAN)
    \/ DoReluActivation(AnyOK, BOOLEAN)
    \/ DoValidateTensorContent(AnyOK, BOOLEAN)
    \/ DevAllocate(AnyOK)
    \/ DevFree

Spec == Init /\ [][Next]_vars

(***************************************************************************)
(* The pipeline runs: every operation, the device-resident pipeline of     *)
(* the caller included; the caller's allocations may fail, those of the    *)
(* host-convenience operations succeed.                                    *)
(***************************************************************************)
NextDev ==
    \/ DoComputeTensorOp(AllOK, BOOLEAN)
    \/ DoMatrixMultiply(AllOK, BOOLEAN)
    \/ DoMeanPooling(AllOK, BOOLEAN)
    \/ DoReluActivation(AllOK, BOOLEAN)
    \/ DoValidateTensorContent(AllOK, BOOLEAN)
    \/ DevAllocate(AnyOK)
    \/ DevCopyIn
    \/ DoMatrixMultiply_GPU(BOOLEAN)
    \/ DoMeanPooling_GPU(BOOLEAN)
    \/ DoReluActivation_GPU(BOOLEAN)
    \/ DevCopyOut
    \/ DevFree

SpecDev == Init /\ [][NextDev]_vars

(***************************************************************************)
(* The data runs: the operations that have a device-resident variant, on   *)
(* every input of the shapes below, through the host-convenience           *)
(* operation and through the device-resident pipeline.                     *)
(***************************************************************************)
MaskValues == {0, 1}
ReluValues == {F(-1), F(0), F(2)}
PoolShapes == {<<1, s, h>> : s \in 1..MaxSeq, h \in {1, 2}} \cup {<<2, 2, 1>>, <<2, 1, 2>>}
MatMulShapes == {1, 2} \X {1, 2} \X {1, 2}

WorkData ==
    UNION {{PoolWork(sh[1], sh[2], sh[3], mask) : mask \in [1..(sh[1] * sh[2]) -> MaskValues]} : sh \in PoolShapes}
    \cup UNION {{ReluWork(x) : x \in [1..n -> ReluValues]} : n \in 1..MaxLen}
    \cup {MatMulWork(sh[1], sh[2], sh[3]) : sh \in MatMulShapes}

InitData == InitWith(WorkData)

NextData ==
    \/ DoMatrixMultiply(AllOK, {TRUE})
    \/ DoMeanPooling(AllOK, {TRUE})
    \/ DoReluActivation(AllOK, {TRUE})
    \/ DevAllocate(AnyOK)
    \/ DevCopyIn
    \/ DoMatrixMultiply_GPU({TRUE})
    \/ DoMeanPooling_GPU({TRUE})
    \/ DoReluActivation_GPU({TRUE})
    \/ DevCopyOut
    \/ DevFree

SpecData == InitData /\ [][NextData]_vars

(***************************************************************************)
(* The launch-coverage runs: the operations that launch vectorAdd,         *)
(* reluKernel and matMulKernel on every count up to MaxCount and every     *)
(* extent up to MaxTile, and the grid sizing alone on the counts within    *)
(* MaxNear of INT_MAX.                                                     *)
(***************************************************************************)
WorkGrid ==
    {AddWork(n) : n \in 0..MaxCount}
    \cup {ReluWork(FloatsA(n)) : n \in 0..MaxCount}
    \cup {MatMulWork(M, N, 1) : M \in 0..MaxTile, N \in 0..MaxTile}
    \cup {CountWork(IntMax - d) : d \in 0..MaxNear}

\* int blocksPerGrid = (numElements + threadsPerBlock - 1) / threadsPerBlock, the
\* launch configuration of ComputeTensorOp, ReluActivation and ReluActivation_GPU
BlocksPerGrid ==
    /\ work.kind = "count"
    /\ \E ub \in Overflow(work.d1, threadsPerBlock) :
         grid' = <<Grid1D(work.d1, ub), 1, 1>>
    /\ last' = [NoCall EXCEPT !.op = "blocksPerGrid", !.kind = "grid"]
    /\ UNCHANGED <<dmem, faulted, events, metrics, h_Out, h_G, pipe, work, klog>>

InitGrid == InitWith(WorkGrid)

NextGrid ==
    \/ DoComputeTensorOp(AllOK, {TRUE})
    \/ DoMatrixMultiply(AllOK, {TRUE})
    \/ DoReluActivation(AllOK, {TRUE})
    \/ BlocksPerGrid

SpecGrid == InitGrid /\ [][NextGrid]_vars

\* ---- size runs: the operations over shapes of the whole int range ----

\* the shape parameters: the small ones, the two either side of the square root
\* of 2^31, 2^16 whose square is 2^32, and the largest int
Sides == (1..MaxSide) \cup {46340, 46341, 65536, IntMax}

WorkSize ==
    {ShapeWork("mmshape", M, N, K) : M \in Sides, N \in Sides, K \in Sides}
    \cup {ShapeWork("poolshape", b, s, h) : b \in Sides, s \in Sides, h \in Sides}
    \cup {MatMulWork(2, 1, 2), PoolWork(1, 3, 2, <<1, 0, 1>>)}

\* a size computation that asks for count elements of elem bytes
Request(count, elem) == [count |-> count, elem |-> elem]

\* size_t sizeA = M * K * sizeof(float), sizeB = K * N * sizeof(float),
\* sizeC = M * N * sizeof(float): the size computations of MatrixMultiply
MatrixMultiplySizes ==
    /\ work.kind = "mmshape"
    /\ \E sz \in MatMulOverflows(work.d1, work.d2, work.d3) :
         last' = [NoCall EXCEPT !.op = "MatrixMultiply", !.kind = "sizes",
                    !.req = <<Request(Elems2(work.d1, work.d3, sz[1]), sizeofFloat),
                              Request(Elems2(work.d3, work.d2, sz[2]), sizeofFloat),
                              Request(Elems2(work.d1, work.d2, sz[3]), sizeofFloat)>>]
    /\ UNCHANGED <<dmem, faulted, events, metrics, h_Out, h_G, pipe, work, klog, grid>>

\* size_t sizeInput = batchSize * seqLen * hiddenSize * sizeof(float),
\* sizeMask = batchSize * seqLen * sizeof(long long),
\* sizeOutput = batchSize * hiddenSize * sizeof(float): those of MeanPooling
MeanPoolingSizes ==
    /\ work.kind = "poolshape"
    /\ \E sz \in PoolOverflows(work.d1, work.d2, work.d3) :
         last' = [NoCall EXCEPT !.op = "MeanPooling", !.kind = "sizes",
                    !.req = <<Request(Elems3(work.d1, work.d2, work.d3, sz[1]), sizeofFloat),
                              Request(Elems2(work.d1, work.d2, sz[2]), sizeofLongLong),
                              Request(Elems2(work.d1, work.d3, sz[3]), sizeofFloat)>>]
    /\ UNCHANGED <<dmem, faulted, events, metrics, h_Out, h_G, pipe, work, klog, grid>>

InitSize == InitWith(WorkSize)

NextSize ==
    \/ DoMatrixMultiply(AllOK, {TRUE})
    \/ DoMeanPooling(AllOK, {TRUE})
    \/ MatrixMultiplySizes
    \/ MeanPoolingSizes

SpecSize == InitSize /\ [][NextSize]_vars

(***************************************************************************)
(* Properties.  Calls(c) are the positions of the runtime call c in the    *)
(* trace of the last operation.                                            *)
(***************************************************************************)
Calls(c) == {i \in 1..Len(last.trace) : last.trace[i].call = c}

Copies == Calls("cudaMemcpyHostToDevice") \cup Calls("cudaMemcpyDeviceToHost")

\* C1: when a host-convenience operation returns, whatever its allocations
\* answered, the set of live device buffers is the one before the call.
C1_HostOpsRestoreLiveBuffers ==
    [][last'.kind = "host" => DOMAIN dmem' = DOMAIN dmem]_vars

\* C2: a host-convenience operation one of whose allocations failed has made
\* no host-device copy and no kernel launch.
C2_FailedAllocationStopsTheCall ==
    (last.kind = "host" /\ ~AllTrue(last.allocs)) =>
        (Copies = {} /\ Calls("launch") = {})

\* C3, as stated: in every operation that launches a kernel, the wait on the
\* stop event comes after the launch and before both the copy of the result to
\* the host and the read of the elapsed time.
C3_WaitBeforeCopyAndRead ==
    last.kind \in {"host", "gpu"} =>
        \A l \in Calls("launch") :
            \E w \in Calls("cudaEventSynchronize(stop)") :
                /\ l < w
                /\ \A c \in Calls("cudaMemcpyDeviceToHost") \cup Calls("cudaEventElapsedTime") : w < c

\* C3, amended: in every operation that launches a kernel, the wait on the stop
\* event comes after the launch and before the read of the elapsed time, which
\* finds no kernel unawaited; a host-convenience operation issues its copy of
\* the result to the host after the launch and before that wait.
C3_WaitBeforeElapsedRead ==
    last.kind \in {"host", "gpu"} =>
        \A l \in Calls("launch") :
            \E w \in Calls("cudaEventSynchronize(stop)") :
                /\ l < w
                /\ \A e \in Calls("cudaEventElapsedTime") : w < e /\ ~last.trace[e].busy
                /\ \A c \in Calls("cudaMemcpyDeviceToHost") : l < c /\ c < w

C3_Witness ==
    /\ last.op = "MatrixMultiply"
    /\ Calls("launch") # {}
    /\ Calls("cudaMemcpyDeviceToHost") # {}
    /\ Calls("cudaEventElapsedTime") # {}
    /\ ~faulted

\* C4: over the calls that share one metrics record, no call lowers
\* active_kernels and each successful call raises it by one.
C4_ActiveKernelsCountsCalls ==
    [][/\ metrics'.active_kernels >= metrics.active_kernels
       /\ (/\ last'.kind \in {"host", "gpu", "validate"}
           /\ last'.mp
           /\ AllTrue(last'.allocs)
           /\ ~faulted')
          => metrics'.active_kernels = metrics.active_kernels + 1]_vars

\* the bytes a host-convenience operation on w holds while it samples the memory
OwnBytes(w) ==
    IF w.kind = "relu"
    THEN SlotBytes(w, "a") + SlotBytes(w, "c")
    ELSE SlotBytes(w, "a") + SlotBytes(w, "b") + SlotBytes(w, "c")

\* C5, as stated: every operation other than ComputeTensorOp and MatrixMultiply
\* leaves memory_usage_mb unchanged.
C5_OnlyAddAndMatMulWriteMemoryUsage ==
    [][last'.op \notin {"ComputeTensorOp", "MatrixMultiply"} =>
          metrics'.memory_usage_mb = metrics.memory_usage_mb]_vars

\* C5, amended: each of the four host-convenience operations, given a metrics
\* record, sets memory_usage_mb to the device memory in use while its own
\* buffers are still allocated; every other operation (the three _GPU
\* variants, ValidateTensorContent, the memory exports) leaves it unchanged.
C5_HostOpsWriteMemoryUsage ==
    [][/\ last'.kind # "host" => metrics'.memory_usage_mb = metrics.memory_usage_mb
       /\ (last'.kind = "host" /\ last'.mp) =>
              metrics'.memory_usage_mb = ToMB(UsedBytes(dmem) + OwnBytes(work))
       /\ (last'.kind = "host" /\ ~last'.mp) => metrics' = metrics]_vars

C5_Witness ==
    /\ last.op = "MeanPooling_GPU"
    /\ last.mp
    /\ metrics.memory_usage_mb = ToMB(OwnBytes(work))
    /\ metrics.compute_time_ms = F(1)

\* C6, as stated: ValidateTensorContent returns 1 whatever it is given.
C6_ValidateAlwaysSucceeds ==
    last.op = "ValidateTensorContent" => last.ret = 1

\* C6, amended: ValidateTensorContent returns 1 when its device allocation
\* succeeds and -1 when it fails; the data and the threshold decide nothing.
C6_ValidateReportsAllocationOnly ==
    last.op = "ValidateTensorContent" =>
        last.ret = (IF AllTrue(last.allocs) THEN 1 ELSE -1)

C6_Witness ==
    /\ last.op = "ValidateTensorContent"
    /\ last.ret = 1
    /\ \E i \in 1..Len(work.A) : FGt(work.A[i], F(1))
    /\ \E i \in 1..Len(work.A) : FGt(F(0), work.A[i])

\* C7: a _GPU variant makes no allocation, free or host-device copy; across the
\* call the set of live device buffers is unchanged and every buffer other than
\* the output buffer it was handed keeps its content.
C7_GpuVariantsTouchOnlyOutput ==
    [][last'.kind = "gpu" =>
          /\ \A i \in 1..Len(last'.trace) :
                last'.trace[i].call \notin {"cudaMalloc", "cudaFree", "cudaMemcpyHostToDevice", "cudaMemcpyDeviceToHost"}
          /\ DOMAIN dmem' = DOMAIN dmem
          /\ \A p \in DOMAIN dmem : p # pipe.c => dmem'[p] = dmem[p]]_vars

C7_Witness ==
    /\ last.kind = "gpu"
    /\ Calls("launch") # {}
    /\ Cardinality(DOMAIN dmem) >= 2
    /\ pipe.c \in DOMAIN dmem
    /\ \A i \in 1..Len(dmem[pipe.c].data) : dmem[pipe.c].data[i] # Indet

\* the positions of batch row b whose mask is 1
Attended(w, b) == {s \in 0..(w.d2 - 1) : w.B[b * w.d2 + s + 1] = 1}

RECURSIVE InputSum(_, _, _, _)
InputSum(w, b, h, S) ==
    IF S = {} THEN F(0)
    ELSE LET s == CHOOSE x \in S : TRUE
         IN  FAdd(w.A[(b * w.d2 + s) * w.d3 + h + 1], InputSum(w, b, h, S \ {s}))

\* C8: for every b < batchSize and h < hiddenSize, mean pooling writes
\* output[b,h] = the sum of input[b,s,h] over the positions s with mask[b,s] = 1
\* divided by their number, and 0.0 when row b has no such position.
C8_MeanPoolingAveragesAttended ==
    (work.kind = "pool" /\ h_Out.done) =>
        \A b \in 0..(work.d1 - 1), h \in 0..(work.d3 - 1) :
            h_Out.buf[b * work.d3 + h + 1] =
                (IF Attended(work, b) = {} THEN F(0)
                 ELSE FDivInt(InputSum(work, b, h, Attended(work, b)),
                              Cardinality(Attended(work, b))))

\* batchSize=1, seqLen=3, hiddenSize=2, input=[[1,10],[2,20],[3,30]], mask=[1,0,1]
C8_Witness ==
    /\ work.kind = "pool"
    /\ <<work.d1, work.d2, work.d3>> = <<1, 3, 2>>
    /\ work.A = HostSeq(<<1, 10, 2, 20, 3, 30>>)
    /\ work.B = <<1, 0, 1>>
    /\ h_Out.done
    /\ h_Out.buf = HostSeq(<<2, 20>>)

\* C9: when all allocations succeed, the output the host-convenience operation
\* returns equals the output copied back from the device after the _GPU variant
\* ran on device copies of the same input.
C9_GpuVariantMatchesHostOp ==
    (h_Out.done /\ h_G.done) => h_Out.buf = h_G.buf

C9_Witness ==
    /\ h_Out.done
    /\ h_G.done
    /\ work.kind = "matmul"
    /\ <<work.d1, work.d2, work.d3>> = <<2, 2, 2>>
    /\ \A i \in 1..Len(h_G.buf) : h_G.buf[i] # Indet /\ h_G.buf[i] # F(0)

\* ceil(n / d)
CeilDiv(n, d) == (n \div d) + (IF n % d = 0 THEN 0 ELSE 1)

\* the number of threads of the last launch that wrote element idx
Writers(idx) == Cardinality({e \in klog : e.idx = idx})

\* C10: a 1-D launch for count >= 0 elements has ceil(count / 256) groups of 256
\* threads, every index below count is written by exactly one thread and no
\* thread at or beyond count writes; the 16x16 tiling of matmul writes every
\* cell (row < M, col < N) exactly once and no cell outside.
C10_LaunchCoversExtent ==
    /\ (work.kind \in {"add", "relu", "count"} /\ last.kind \in {"host", "grid"}) =>
          grid = <<CeilDiv(work.d1, threadsPerBlock), 1, 1>>
    /\ (work.kind \in {"add", "relu"} /\ last.kind = "host") =>
          /\ \A i \in 0..(work.d1 - 1) : Writers(i) = 1
          /\ \A e \in klog : e.idx = threadsPerBlock * e.t[1] + e.t[4] /\ e.idx < work.d1
    /\ (work.kind = "matmul" /\ last.kind = "host") =>
          /\ \A i \in 0..(work.d1 * work.d2 - 1) : Writers(i) = 1
          /\ \A e \in klog :
                LET row == e.t[2] * tileDim + e.t[5]
                    col == e.t[1] * tileDim + e.t[4]
                IN  row < work.d1 /\ col < work.d2 /\ e.idx = row * work.d2 + col

\* C11: every timing event an operation creates is destroyed before the
\* operation returns, on every exit path, so the number of live timing events
\* is the same after any call as before it.
C11_EventsDestroyedOnEveryPath ==
    [][last'.kind \in {"host", "gpu", "validate"} => events' = events]_vars

\* the int count is the product a * b (a * b * c) of positive factors
IsProduct2(count, a, b) == count >= 0 /\ count % b = 0 /\ count \div b = a
IsProduct3(count, a, b, c) == count >= 0 /\ count % c = 0 /\ IsProduct2(count \div c, a, b)

\* C12: for all shape parameters >= 1 of the int range, each device buffer
\* size MatrixMultiply and MeanPooling request is the element count times the
\* element size: M*K, K*N, M*N floats and batchSize*seqLen*hiddenSize floats,
\* batchSize*seqLen long longs, batchSize*hiddenSize floats, the int product
\* not having wrapped before it was widened.
C12_SizesAreElementCountTimesElementSize ==
    /\ (last.op = "MatrixMultiply" /\ Len(last.req) = 3) =>
          /\ IsProduct2(last.req[1].count, work.d1, work.d3) /\ last.req[1].elem = sizeofFloat
          /\ IsProduct2(last.req[2].count, work.d3, work.d2) /\ last.req[2].elem = sizeofFloat
          /\ IsProduct2(last.req[3].count, work.d1, work.d2) /\ last.req[3].elem = sizeofFloat
    /\ (last.op = "MeanPooling" /\ Len(last.req) = 3) =>
          /\ IsProduct3(last.req[1].count, work.d1, work.d2, work.d3) /\ last.req[1].elem = sizeofFloat
          /\ IsProduct2(last.req[2].count, work.d1, work.d2) /\ last.req[2].elem = sizeofLongLong
          /\ IsProduct2(last.req[3].count, work.d1, work.d3) /\ last.req[3].elem = sizeofFloat

====
